---- MODULE Spec2Model ----
(***************************************************************************)
(* StreamableMCPClient (src/client.ts): JSON-RPC over HTTP POST with       *)
(* bounded exponential-backoff retry, response-shape normalisation and     *)
(* chunked delivery of text to a consumer callback.                        *)
(*                                                                         *)
(* Strings are sequences of UTF-16 code units (naturals).  JSON values are *)
(* records [t, n, s, c]: t the type tag, n the number, s the string, c the *)
(* members (each [k |-> key, v |-> value]; array items have the empty key).*)
(* Every asynchronous operation is a frame in `call`; one action is one    *)
(* synchronous run of the code between two suspension points.              *)
(***************************************************************************)
EXTENDS Integers, Sequences, FiniteSets, TLC

VARIABLES
    servers,     \* this.servers: server name -> URL
    options,     \* the constructor's options.maxRetries
    maxRetries,  \* this.maxRetries
    requestId,   \* this.requestId
    call,        \* the frames of the listTools / callToolStream operations
    posts,       \* per operation, the POSTs it handed to fetch, in order
    delays,      \* per operation, the backoff delays it awaited (ms), in order
    chunks,      \* per operation, the arguments of its onData invocations, in order
    assigned,    \* the request ids given to payloads, in order of construction
    sentIds,     \* the ids of all requests handed to fetch so far
    started      \* number of operations invoked so far

vars == <<servers, options, maxRetries, requestId, call, posts, delays, chunks,
          assigned, sentIds, started>>

----------------------------------------------------------------------------
\* Bounds of the model.

\* operations invoked on one client instance
MaxCalls == 3
\* largest explicitly configured options.maxRetries
MaxRetriesOpt == 2
\* length of the longest text the server returns
MaxTextLen == 120

\* Slots for operations; Spec runs them one at a time in slot 1.
Ops == {1, 2}

----------------------------------------------------------------------------
\* JSON values.

Undefined == [t |-> "undefined", n |-> 0, s |-> <<>>, c |-> <<>>]
Null      == [t |-> "null",      n |-> 0, s |-> <<>>, c |-> <<>>]
Num(x)    == [t |-> "number",    n |-> x, s |-> <<>>, c |-> <<>>]
Str(x)    == [t |-> "string",    n |-> 0, s |-> x,    c |-> <<>>]
Arr(xs)   == [t |-> "array",     n |-> 0, s |-> <<>>,
              c |-> [j \in 1..Len(xs) |-> [k |-> <<>>, v |-> xs[j]]]]
Obj(ms)   == [t |-> "object",    n |-> 0, s |-> <<>>, c |-> ms]
Member(key, val) == [k |-> key, v |-> val]

\* Property names, as code units.
kContent   == <<99, 111, 110, 116, 101, 110, 116>>
kText      == <<116, 101, 120, 116>>
kType      == <<116, 121, 112, 101>>
kData      == <<100, 97, 116, 97>>
kImage     == <<105, 109, 97, 103, 101>>
kError     == <<101, 114, 114, 111, 114>>
kResult    == <<114, 101, 115, 117, 108, 116>>
kTools     == <<116, 111, 111, 108, 115>>
kCode      == <<99, 111, 100, 101>>
kMessage   == <<109, 101, 115, 115, 97, 103, 101>>
kName      == <<110, 97, 109, 101>>
kFoo       == <<102, 111, 111>>
kArguments == <<97, 114, 103, 117, 109, 101, 110, 116, 115>>

\* JS: v[key] on a value that is neither null nor undefined.
Get(v, key) ==
    IF v.t = "object" /\ \E j \in 1..Len(v.c) : v.c[j].k = key
    THEN LET j == CHOOSE m \in 1..Len(v.c) :
                      /\ v.c[m].k = key
                      /\ \A m2 \in (m+1)..Len(v.c) : v.c[m2].k # key
         IN v.c[j].v
    ELSE Undefined

\* JS: reading a property of null or undefined throws a TypeError.
Nullish(v) == v.t \in {"undefined", "null"}

\* JS truthiness.
Truthy(v) ==
    CASE v.t \in {"undefined", "null"} -> FALSE
      [] v.t = "number" -> v.n # 0
      [] v.t = "string" -> v.s # <<>>
      [] OTHER -> TRUE

\* Array.isArray
IsArray(v) == v.t = "array"

\* The items of an array value.
Items(v) == [j \in 1..Len(v.c) |-> v.c[j].v]

----------------------------------------------------------------------------
\* JSON.stringify(value, null, 2)

RECURSIVE Digits(_)
Digits(x) == IF x < 10 THEN <<48 + x>> ELSE Digits(x \div 10) \o <<48 + (x % 10)>>

NumberText(x) == IF x < 0 THEN <<45>> \o Digits(0 - x) ELSE Digits(x)

HexDigit(x) == IF x < 10 THEN 48 + x ELSE 87 + x

\* QuoteJSONString: the escape of one code unit.
EscapeUnit(u) ==
    CASE u = 34 -> <<92, 34>>
      [] u = 92 -> <<92, 92>>
      [] u = 8  -> <<92, 98>>
      [] u = 9  -> <<92, 116>>
      [] u = 10 -> <<92, 110>>
      [] u = 12 -> <<92, 102>>
      [] u = 13 -> <<92, 114>>
      [] u < 32 -> <<92, 117, 48, 48, HexDigit(u \div 16), HexDigit(u % 16)>>
      [] OTHER  -> <<u>>

RECURSIVE EscapeFrom(_, _)
EscapeFrom(s, j) ==
    IF j > Len(s) THEN <<>> ELSE EscapeUnit(s[j]) \o EscapeFrom(s, j + 1)

Quote(s) == <<34>> \o EscapeFrom(s, 1) \o <<34>>

Spaces(n) == [j \in 1..n |-> 32]

RECURSIVE Stringify(_, _)
RECURSIVE StringifyFrom(_, _, _, _)
\* The members ms[j..] of an object (isObj) or array, each on its own line.
StringifyFrom(ms, j, ind, isObj) ==
    IF j > Len(ms) THEN <<>>
    ELSE (IF j > 1 THEN <<44, 10>> ELSE <<>>)
         \o Spaces(ind)
         \o (IF isObj THEN Quote(ms[j].k) \o <<58, 32>> ELSE <<>>)
         \o (IF ms[j].v.t = "undefined" THEN <<110, 117, 108, 108>>
                                        ELSE Stringify(ms[j].v, ind))
         \o StringifyFrom(ms, j + 1, ind, isObj)

\* SerializeJSONProperty with gap "  "; ind is the current indentation.
Stringify(v, ind) ==
    CASE v.t = "null"   -> <<110, 117, 108, 108>>
      [] v.t = "number" -> NumberText(v.n)
      [] v.t = "string" -> Quote(v.s)
      [] v.t = "array"  ->
            IF v.c = <<>> THEN <<91, 93>>
            ELSE <<91, 10>> \o StringifyFrom(v.c, 1, ind + 2, FALSE)
                 \o <<10>> \o Spaces(ind) \o <<93>>
      [] v.t = "object" ->
            LET kept == SelectSeq(v.c, LAMBDA m : m.v.t # "undefined")
            IN IF kept = <<>> THEN <<123, 125>>
               ELSE <<123, 10>> \o StringifyFrom(kept, 1, ind + 2, TRUE)
                    \o <<10>> \o Spaces(ind) \o <<125>>
      [] OTHER -> <<>>

\* JSON.stringify(result, null, 2), src/client.ts processToolResponse.
JSONstringify(v) == Stringify(v, 0)

----------------------------------------------------------------------------
\* The client's configuration.

\* streamText's default chunkSize
ChunkSize == 50
\* the constructor's default for maxRetries
DefaultMaxRetries == 3

AwsUrl   == "https://knowledge-mcp.global.api.aws"
LocalUrl == "http://localhost:3000/mcp"

\* The mappings the client is constructed with (index.ts builds one from the
\* enabled entries of the configuration; a configured url may be empty).
ServerMaps ==
    { [n \in {"aws", "local"} |-> IF n = "aws" THEN AwsUrl ELSE LocalUrl],
      [n \in {"aws", "local"} |-> IF n = "aws" THEN AwsUrl ELSE ""] }

\* The server names operations are invoked with: two registered names, an
\* unknown one, and a name every plain object inherits from Object.prototype.
ServerNames == {"aws", "local", "nope", "constructor"}

\* Names that a plain object inherits.
ProtoNames == {"constructor"}
\* String(Object), what fetch is handed for an inherited member.
ProtoValue == "function Object() { [native code] }"

\* options.maxRetries: left out, or a number.
NoOption == [set |-> FALSE, v |-> 0]
OptionValues == {NoOption} \cup {[set |-> TRUE, v |-> n] : n \in 0..MaxRetriesOpt}

\* constructor: this.maxRetries = options.maxRetries || 3
Constructor(opt) == IF opt.set /\ opt.v # 0 THEN opt.v ELSE DefaultMaxRetries

\* this.servers[serverName]: an own member, an inherited one, or undefined.
ServerEntry(name) ==
    IF name \in DOMAIN servers THEN [def |-> TRUE, url |-> servers[name]]
    ELSE IF name \in ProtoNames THEN [def |-> TRUE, url |-> ProtoValue]
    ELSE [def |-> FALSE, url |-> ""]

\* validateServerName: passes unless !this.servers[serverName]
ValidServerName(name) ==
    LET e == ServerEntry(name) IN e.def /\ e.url # ""

\* getServerNames: Object.keys(this.servers)
GetServerNames == DOMAIN servers

----------------------------------------------------------------------------
\* The transport: what node-fetch does with one POST.

\* Errors fetch rejects with; status 0 stands for error.response being absent
\* (node-fetch never attaches a response to an error it throws).
FetchError(name, code) == [name |-> name, code |-> code, status |-> 0]
AbortError   == FetchError("AbortError", "")
ConnReset    == FetchError("FetchError", "ECONNRESET")
ConnTimedOut == FetchError("FetchError", "ETIMEDOUT")
ConnRefused  == FetchError("FetchError", "ECONNREFUSED")
InvalidUrl   == FetchError("TypeError", "ERR_INVALID_URL")

IsAbsoluteUrl(url) == url \in {AwsUrl, LocalUrl}

\* The rejections possible for a request to url.
FetchErrors(url) ==
    IF IsAbsoluteUrl(url) THEN {AbortError, ConnReset, ConnTimedOut, ConnRefused}
    ELSE {InvalidUrl}

\* Every error that carries a system code is retried.
IsRetryableAnyCode(error) ==
    \/ error.name = "AbortError"
    \/ error.code # ""

\* isRetryableError
IsRetryableError(error) ==
    \/ error.name = "AbortError"
    \/ error.code = "ECONNRESET"
    \/ error.code = "ETIMEDOUT"
    \/ (error.status # 0 /\ error.status >= 500)

\* The budget compared with <= : one retry too many.
ShouldRetryInclusive(retryCount, error) ==
    retryCount <= maxRetries /\ IsRetryableError(error)

\* makeRequest's catch: retry or rethrow
ShouldRetry(retryCount, error) ==
    retryCount < maxRetries /\ IsRetryableError(error)

RECURSIVE Pow2(_)
Pow2(n) == IF n = 0 THEN 1 ELSE 2 * Pow2(n - 1)

\* Base and exponent exchanged: Math.pow(retryCount, 2) * 1000
BackoffDelaySwapped(retryCount) == retryCount * retryCount * 1000

\* makeRequest: Math.pow(2, retryCount) * 1000
BackoffDelay(retryCount) == Pow2(retryCount) * 1000

\* response.ok
Ok(status) == status >= 200 /\ status <= 299

----------------------------------------------------------------------------
\* What the server answers.

\* A text of n distinct code units.
Txt(base, n) == [j \in 1..n |-> base + j]

TextItem(txt)  == Obj(<<Member(kType, Str(kText)), Member(kText, Str(txt))>>)
ImageItem      == Obj(<<Member(kType, Str(kImage)), Member(kData, Str(<<120>>))>>)
ErrorValue     == Obj(<<Member(kCode, Num(-32601)), Member(kMessage, Str(kName))>>)
ToolsValue     == Arr(<<Obj(<<Member(kName, Str(kFoo))>>)>>)
Success(r)     == Obj(<<Member(kResult, r)>>)

\* Result payloads of successful invocations.
ResultPayloads ==
    { Obj(<<Member(kContent, Arr(<<TextItem(Txt(1000, ChunkSize + 1)), ImageItem,
                                    TextItem(Txt(2000, 1))>>))>>),
      Obj(<<Member(kContent, Arr(<<TextItem(Txt(1000, ChunkSize)), Null>>))>>),
      Obj(<<Member(kContent, Arr(<<Null, TextItem(Txt(2000, 1))>>))>>),
      Obj(<<Member(kContent, Arr(<<TextItem(<<>>)>>))>>),
      Obj(<<Member(kContent, Arr(<<>>))>>),
      Obj(<<Member(kContent, Arr(<<TextItem(Txt(1000, 2))>>)),
            Member(kText, Str(Txt(3000, 3)))>>),
      Obj(<<Member(kText, Str(Txt(3000, MaxTextLen)))>>),
      Obj(<<Member(kText, Str(<<>>))>>),
      Obj(<<Member(kFoo, Num(1))>>),
      Obj(<<Member(kTools, ToolsValue)>>),
      Null }

\* The values a syntactically valid body parses to.
JsonBodies ==
    {Success(r) : r \in ResultPayloads}
    \cup { Obj(<<>>),
           Null,
           Obj(<<Member(kError, ErrorValue)>>),
           Obj(<<Member(kError, ErrorValue),
                 Member(kResult, Obj(<<Member(kText, Str(Txt(3000, 2)))>>))>>) }

\* A response body: whether it can be read (response.body present, no stream
\* error), whether it is valid JSON, and the value it parses to.
Body(read, valid, json) == [read |-> read, valid |-> valid, json |-> json]
NotJson  == Body("ok", FALSE, Undefined)
NoBody   == Body("none", FALSE, Undefined)
ReadFail == Body("error", FALSE, Undefined)

Bodies == {Body("ok", TRUE, j) : j \in JsonBodies} \cup {NotJson, NoBody, ReadFail}

Response(status, body) == [status |-> status, body |-> body]
NoResponse == Response(0, NoBody)

\* The responses fetch resolves with.
Responses ==
    {Response(200, b) : b \in Bodies}
    \cup {Response(st, NotJson) : st \in {404, 500, 503}}

----------------------------------------------------------------------------
\* Frames of the asynchronous operations.

NoError == [kind |-> "none", status |-> 0, code |-> 0, message |-> <<>>,
            names |-> {}, cause |-> ""]
Err(kind) == [NoError EXCEPT !.kind = kind]

\* new Error(`... (${result.error.code}): ${result.error.message}`)
RpcError(error) ==
    [Err("RPC") EXCEPT !.code = Get(error, kCode).n, !.message = Get(error, kMessage).s]

\* pc: "idle" (not invoked), "fetch" (awaiting fetch), "backoff" (awaiting the
\* retry delay), "read" (awaiting the response body), "stream" (awaiting the
\* inter-chunk delay), "returned", "thrown".
IdleFrame ==
    [ pc |-> "idle", method |-> "", serverName |-> "", serverUrl |-> "",
      id |-> 0, params |-> Undefined, retryCount |-> 0, response |-> NoResponse,
      items |-> <<>>, inContent |-> FALSE, idx |-> 0, text |-> <<>>, i |-> 0,
      ret |-> Undefined, error |-> NoError,
      \* history: thrown aborts/resets/timeouts seen, texts given to streamText
      transients |-> 0, streamed |-> <<>> ]

Finished(f) == f.pc \in {"idle", "returned", "thrown"}

\* The tool and the arguments callToolStream is invoked with.
ToolName == kFoo
ToolArgs == Obj(<<Member(kName, Str(kText))>>)

\* payload.params: {} for tools/list, {name: tool, arguments: args} for tools/call
Params(method) ==
    IF method = "tools/list" THEN Obj(<<>>)
    ELSE Obj(<<Member(kName, Str(ToolName)), Member(kArguments, ToolArgs)>>)

\* Every attempt takes a fresh id from the counter instead of the payload's.
PostCounterId(f) == [url |-> f.serverUrl, id |-> requestId, method |-> f.method,
                     params |-> f.params, retryCount |-> f.retryCount]

\* A POST handed to fetch.
Post(f) == [url |-> f.serverUrl, id |-> f.id, method |-> f.method,
            params |-> f.params, retryCount |-> f.retryCount]

\* The counter is read but not advanced.
NextRequestIdStuck == requestId

\* payload.id: this.requestId++
NextRequestId == requestId + 1

\* The catch blocks of listTools / callToolStream: rethrow, wrapped.
Throw(f, error) == [f EXCEPT !.pc = "thrown", !.error = error]

\* String.prototype.slice(a, b) for 0 <= a <= b
Slice(text, a, b) ==
    SubSeq(text, a + 1, IF b < Len(text) THEN b ELSE Len(text))

\* text.length as the loop of streamText sees it (undefined unless a string)
TextLength(v) == IF v.t = "string" THEN Len(v.s) ELSE 0

\* The loop steps one past the slice it delivered.
NextOffsetSkipping(i) == i + ChunkSize + 1

\* streamText: i += chunkSize
NextOffset(i) == i + ChunkSize

\* The slice ends one unit late, so successive slices overlap.
ChunkAtInclusive(text, i) == Slice(text, i, i + ChunkSize + 1)

\* streamText: text.slice(i, i + chunkSize)
ChunkAt(text, i) == Slice(text, i, i + ChunkSize)

\* processToolResponse's loop, from item j on, up to the first onData: the
\* next item that streamText delivers a chunk of, a TypeError (item.type of
\* null), or the end of the content.
RECURSIVE NextText(_, _)
NextText(items, j) ==
    IF j > Len(items) THEN [k |-> "end", idx |-> j, text |-> <<>>]
    ELSE IF Nullish(items[j]) THEN [k |-> "throw", idx |-> j, text |-> <<>>]
    ELSE IF /\ Get(items[j], kType) = Str(kText)
            /\ Truthy(Get(items[j], kText))
            /\ TextLength(Get(items[j], kText)) > 0
         THEN [k |-> "text", idx |-> j, text |-> Get(items[j], kText).s]
         ELSE NextText(items, j + 1)

\* The top-level text is looked at before the content sequence.
BranchTextFirst(result) ==
    IF Truthy(Get(result, kText)) THEN "text"
    ELSE IF Truthy(Get(result, kContent)) /\ IsArray(Get(result, kContent)) THEN "content"
    ELSE "json"

\* processToolResponse: which text the payload selects first.
\* "content": iterate result.content; "text": result.text; "json": fallback.
Branch(result) ==
    IF Truthy(Get(result, kContent)) /\ IsArray(Get(result, kContent)) THEN "content"
    ELSE IF Truthy(Get(result, kText)) THEN "text"
    ELSE "json"

\* One synchronous run of the streaming code: the frame it leaves and the
\* chunks it hands to onData.
Ran(f, out) == [fr |-> f, out |-> out]

\* streamText(txt, onData) up to its first await; txt is not empty.
BeginText(f, txt) ==
    Ran([f EXCEPT !.pc = "stream", !.text = txt, !.i = 0,
                  !.streamed = Append(@, txt)],
        <<ChunkAt(txt, 0)>>)

\* processToolResponse: the for loop over result.content from item j on.
ContentFrom(f, j) ==
    LET r == NextText(f.items, j)
    IN CASE r.k = "text"  -> BeginText([f EXCEPT !.idx = r.idx], r.text)
         [] r.k = "throw" -> Ran(Throw(f, Err("TypeError")), <<>>)
         [] OTHER         -> Ran([f EXCEPT !.pc = "returned"], <<>>)

\* processToolResponse(result, onData) up to its first await.
ProcessToolResponse(f, result) ==
    IF Nullish(result) THEN Ran(Throw(f, Err("TypeError")), <<>>)
    ELSE CASE Branch(result) = "content" ->
                ContentFrom([f EXCEPT !.inContent = TRUE,
                                      !.items = Items(Get(result, kContent))], 1)
           [] Branch(result) = "text" ->
                IF TextLength(Get(result, kText)) > 0
                THEN BeginText(f, Get(result, kText).s)
                ELSE Ran([f EXCEPT !.pc = "returned"], <<>>)
           [] OTHER -> BeginText(f, JSONstringify(result))

\* streamText after an inter-chunk delay: the next slice, or back in
\* processToolResponse.
ContinueText(f) ==
    IF NextOffset(f.i) < Len(f.text)
    THEN Ran([f EXCEPT !.i = NextOffset(f.i)], <<ChunkAt(f.text, NextOffset(f.i))>>)
    ELSE IF f.inContent THEN ContentFrom(f, f.idx + 1)
    ELSE Ran([f EXCEPT !.pc = "returned"], <<>>)

\* The whole result payload is returned instead of its tools member.
ListResultWholePayload(f, result) ==
    IF Nullish(result) THEN Throw(f, Err("TypeError"))
    ELSE IF Truthy(Get(result, kError))
    THEN Throw(f, RpcError(Get(result, kError)))
    ELSE LET r == Get(result, kResult)
         IN [f EXCEPT !.pc = "returned",
                      !.ret = IF Truthy(r) THEN r ELSE Arr(<<>>)]

\* listTools after response.json(): result.error, result.result?.tools || []
ListResult(f, result) ==
    IF Nullish(result) THEN Throw(f, Err("TypeError"))
    ELSE IF Truthy(Get(result, kError))
    THEN Throw(f, RpcError(Get(result, kError)))
    ELSE LET r == Get(result, kResult)
             tools == IF Nullish(r) THEN Undefined ELSE Get(r, kTools)
         IN [f EXCEPT !.pc = "returned",
                      !.ret = IF Truthy(tools) THEN tools ELSE Arr(<<>>)]

\* A result member, when there is one, is processed before result.error is read.
CallResultPreferResult(f, result) ==
    IF Nullish(result) THEN Ran(Throw(f, Err("TypeError")), <<>>)
    ELSE IF ~Nullish(Get(result, kResult)) THEN ProcessToolResponse(f, Get(result, kResult))
    ELSE IF Truthy(Get(result, kError))
    THEN Ran(Throw(f, RpcError(Get(result, kError))), <<>>)
    ELSE ProcessToolResponse(f, Get(result, kResult))

\* callToolStream after JSON.parse(buffer): result.error, processToolResponse
CallResult(f, result) ==
    IF Nullish(result) THEN Ran(Throw(f, Err("TypeError")), <<>>)
    ELSE IF Truthy(Get(result, kError))
    THEN Ran(Throw(f, RpcError(Get(result, kError))), <<>>)
    ELSE ProcessToolResponse(f, Get(result, kResult))

\* A body that does not parse is passed on to the consumer as text.
AfterBodyRawText(f) ==
    LET b == f.response.body
    IN IF b.read = "error" THEN Ran(Throw(f, Err("Read")), <<>>)
       ELSE IF ~Ok(f.response.status)
       THEN Ran(Throw(f, [Err("HTTP") EXCEPT !.status = f.response.status]), <<>>)
       ELSE IF ~b.valid /\ f.method = "tools/call" THEN BeginText(f, kError)
       ELSE IF ~b.valid THEN Ran(Throw(f, Err("InvalidJSON")), <<>>)
       ELSE IF f.method = "tools/list" THEN Ran(ListResult(f, b.json), <<>>)
       ELSE CallResult(f, b.json)

\* listTools / callToolStream once the body is in: the !response.ok check,
\* response.json() / JSON.parse(buffer), then the result.
AfterBody(f) ==
    LET b == f.response.body
    IN IF b.read = "error" THEN Ran(Throw(f, Err("Read")), <<>>)
       ELSE IF ~Ok(f.response.status)
       THEN Ran(Throw(f, [Err("HTTP") EXCEPT !.status = f.response.status]), <<>>)
       ELSE IF ~b.valid THEN Ran(Throw(f, Err("InvalidJSON")), <<>>)
       ELSE IF f.method = "tools/list" THEN Ran(ListResult(f, b.json), <<>>)
       ELSE CallResult(f, b.json)

----------------------------------------------------------------------------
\* The program.

Init ==
    /\ servers \in ServerMaps
    /\ options \in OptionValues
    /\ maxRetries = Constructor(options)
    /\ requestId = 1
    /\ call = [op \in Ops |-> IdleFrame]
    /\ posts = [op \in Ops |-> <<>>]
    /\ delays = [op \in Ops |-> <<>>]
    /\ chunks = [op \in Ops |-> <<>>]
    /\ assigned = <<>>
    /\ sentIds = {}
    /\ started = 0

\* The payload, and with it the id, is built before the name is validated.
InvokeIdFirst(op, method, name) ==
    /\ Finished(call[op])
    /\ started < MaxCalls
    /\ started' = started + 1
    /\ delays' = [delays EXCEPT ![op] = <<>>]
    /\ chunks' = [chunks EXCEPT ![op] = <<>>]
    /\ UNCHANGED <<servers, options, maxRetries>>
    /\ requestId' = NextRequestId
    /\ assigned' = Append(assigned, requestId)
    /\ LET f == [IdleFrame EXCEPT !.method = method, !.serverName = name,
                                  !.params = Params(method)]
       IN IF ~ValidServerName(name)
          THEN /\ call' = [call EXCEPT ![op] =
                     Throw(f, [Err("UnknownServer") EXCEPT !.names = GetServerNames])]
               /\ posts' = [posts EXCEPT ![op] = <<>>]
               /\ UNCHANGED sentIds
          ELSE LET g == [f EXCEPT !.pc = "fetch", !.id = requestId,
                                  !.serverUrl = ServerEntry(name).url]
               IN /\ call' = [call EXCEPT ![op] = g]
                  /\ posts' = [posts EXCEPT ![op] = <<Post(g)>>]
                  /\ sentIds' = sentIds \cup {g.id}

\* listTools / callToolStream up to the first await: validateServerName,
\* the payload with the next id, makeRequest's first fetch.
Invoke(op, method, name) ==
    /\ Finished(call[op])
    /\ started < MaxCalls
    /\ started' = started + 1
    /\ delays' = [delays EXCEPT ![op] = <<>>]
    /\ chunks' = [chunks EXCEPT ![op] = <<>>]
    /\ UNCHANGED <<servers, options, maxRetries>>
    /\ LET f == [IdleFrame EXCEPT !.method = method, !.serverName = name,
                                  !.params = Params(method)]
       IN IF ~ValidServerName(name)
          THEN /\ call' = [call EXCEPT ![op] =
                     Throw(f, [Err("UnknownServer") EXCEPT !.names = GetServerNames])]
               /\ posts' = [posts EXCEPT ![op] = <<>>]
               /\ UNCHANGED <<requestId, assigned, sentIds>>
          ELSE LET g == [f EXCEPT !.pc = "fetch", !.id = requestId,
                                  !.serverUrl = ServerEntry(name).url]
               IN /\ call' = [call EXCEPT ![op] = g]
                  /\ requestId' = NextRequestId
                  /\ assigned' = Append(assigned, g.id)
                  /\ posts' = [posts EXCEPT ![op] = <<Post(g)>>]
                  /\ sentIds' = sentIds \cup {g.id}

ListTools(op) == \E name \in ServerNames : Invoke(op, "tools/list", name)

CallToolStream(op) == \E name \in ServerNames : Invoke(op, "tools/call", name)

\* makeRequest's catch block: fetch rejected with error.
FetchThrows(op) ==
    \E error \in FetchErrors(call[op].serverUrl) :
        LET f == [call[op] EXCEPT !.transients =
                      IF error \in {AbortError, ConnReset, ConnTimedOut}
                      THEN @ + 1 ELSE @]
        IN /\ f.pc = "fetch"
           /\ IF ShouldRetry(f.retryCount, error)
              THEN /\ call' = [call EXCEPT ![op] = [f EXCEPT !.pc = "backoff"]]
                   /\ delays' = [delays EXCEPT ![op] =
                                    Append(@, BackoffDelay(f.retryCount))]
              ELSE /\ call' = [call EXCEPT ![op] =
                         Throw(f, [Err("Fetch") EXCEPT !.cause = error.name])]
                   /\ UNCHANGED delays
           /\ UNCHANGED <<servers, options, maxRetries, requestId, posts, chunks,
                          assigned, sentIds, started>>

\* makeRequest after its delay: this.makeRequest(url, payload, retryCount + 1)
Retry(op) ==
    /\ call[op].pc = "backoff"
    /\ LET g == [call[op] EXCEPT !.pc = "fetch", !.retryCount = @ + 1]
       IN /\ call' = [call EXCEPT ![op] = g]
          /\ posts' = [posts EXCEPT ![op] = Append(@, Post(g))]
          /\ sentIds' = sentIds \cup {g.id}
    /\ UNCHANGED <<servers, options, maxRetries, requestId, delays, chunks,
                   assigned, started>>

\* fetch resolved: makeRequest returns the response; the caller starts to
\* read the body (response.text(), response.json() or the body stream).
FetchReturns(op) ==
    \E response \in Responses :
        /\ call[op].pc = "fetch"
        /\ IsAbsoluteUrl(call[op].serverUrl)
        /\ LET f == [call[op] EXCEPT !.response = response]
           IN call' = [call EXCEPT ![op] =
                  IF /\ Ok(response.status)
                     /\ f.method = "tools/call"
                     /\ response.body.read = "none"
                  THEN Throw(f, Err("NoBody"))
                  ELSE [f EXCEPT !.pc = "read"]]
        /\ UNCHANGED <<servers, options, maxRetries, requestId, posts, delays,
                       chunks, assigned, sentIds, started>>

\* The body has been read (or reading failed): the rest of listTools, or of
\* callToolStream up to the first inter-chunk delay.
BodyRead(op) ==
    /\ call[op].pc = "read"
    /\ LET r == AfterBody(call[op])
       IN /\ call' = [call EXCEPT ![op] = r.fr]
          /\ chunks' = [chunks EXCEPT ![op] = @ \o r.out]
    /\ UNCHANGED <<servers, options, maxRetries, requestId, posts, delays,
                   assigned, sentIds, started>>

\* The chunks of every operation go to the consumer of the first one.
StreamTickShared(op) ==
    /\ call[op].pc = "stream"
    /\ LET r == ContinueText(call[op])
       IN /\ call' = [call EXCEPT ![op] = r.fr]
          /\ chunks' = [chunks EXCEPT ![1] = @ \o r.out]
    /\ UNCHANGED <<servers, options, maxRetries, requestId, posts, delays,
                   assigned, sentIds, started>>

\* streamText after await this.delay(10)
StreamTick(op) ==
    /\ call[op].pc = "stream"
    /\ LET r == ContinueText(call[op])
       IN /\ call' = [call EXCEPT ![op] = r.fr]
          /\ chunks' = [chunks EXCEPT ![op] = @ \o r.out]
    /\ UNCHANGED <<servers, options, maxRetries, requestId, posts, delays,
                   assigned, sentIds, started>>

\* Operations invoked one after the other, each awaited (index.ts).
Next ==
    \/ ListTools(1)
    \/ CallToolStream(1)
    \/ FetchThrows(1)
    \/ Retry(1)
    \/ FetchReturns(1)
    \/ BodyRead(1)
    \/ StreamTick(1)

Spec == Init /\ [][Next]_vars

----------------------------------------------------------------------------
\* Retry and backoff.

\* Backoff delays in ms before retry attempts 0, 1, 2, ... and their running sums.
ExpectedDelays == <<1000, 2000, 4000, 8000, 16000, 32000>>
ExpectedTotals == <<0, 1000, 3000, 7000, 15000, 31000, 63000>>

RECURSIVE SumSeq(_)
SumSeq(q) == IF q = <<>> THEN 0 ELSE Head(q) + SumSeq(Tail(q))

\* fetch has resolved for this operation: the transport succeeded.
GotResponse(f) == f.response # NoResponse

\* C1: when the transport throws an abort, reset or timeout exactly k times,
\* k < maxRetries, and then answers, the operation does not fail with the
\* transport error, it has made exactly k + 1 POSTs, the delay before retry
\* attempt i (from 0) was 2^i seconds, and the delays add up to
\* 2^0 + ... + 2^(k-1) seconds.
C1_BackoffThenSuccess ==
    \A op \in Ops :
        LET f == call[op]
            k == f.transients
        IN (GotResponse(f) /\ k < maxRetries) =>
               /\ f.error.kind # "Fetch"
               /\ Len(posts[op]) = k + 1
               /\ delays[op] = SubSeq(ExpectedDelays, 1, k)
               /\ SumSeq(delays[op]) = ExpectedTotals[k + 1]

\* An operation that returned after two transient failures with a budget of 3.
C1_Witness ==
    /\ maxRetries = 3
    /\ call[1].pc = "returned"
    /\ call[1].transients = 2
    /\ delays[1] = <<1000, 2000>>

\* C2 as stated: with k >= maxRetries transient failures, k = maxRetries
\* followed by a success included, the operation gets no response and fails.
C2_Original ==
    \A op \in Ops :
        call[op].transients >= maxRetries =>
            /\ ~GotResponse(call[op])
            /\ call[op].pc # "returned"

\* C2, amended: the budget is one first attempt plus maxRetries retries.  With
\* more than maxRetries transient failures the operation fails with the last
\* transport error after exactly maxRetries retries (maxRetries + 1 POSTs) and
\* no further attempt is made; with exactly maxRetries transient failures the
\* last retry is still made and its outcome decides.
C2_RetriesExhausted ==
    \A op \in Ops :
        LET f == call[op]
        IN /\ Len(posts[op]) <= maxRetries + 1
           /\ Len(delays[op]) <= maxRetries
           /\ f.transients > maxRetries =>
                  /\ f.pc = "thrown"
                  /\ f.error.kind = "Fetch"
                  /\ ~GotResponse(f)
                  /\ Len(posts[op]) = maxRetries + 1
                  /\ Len(delays[op]) = maxRetries
           /\ (f.transients = maxRetries /\ f.pc = "fetch") =>
                  Len(posts[op]) = maxRetries + 1

\* An operation that failed on its last retry.
C2_Witness ==
    /\ call[1].pc = "thrown"
    /\ call[1].transients = maxRetries + 1
    /\ call[1].error.cause = "AbortError"

\* C3 as stated: an HTTP failure with status >= 500 reaches the caller only
\* after maxRetries retries.
C3_Original ==
    \A op \in Ops :
        LET f == call[op]
        IN (f.pc = "thrown" /\ f.error.kind = "HTTP" /\ f.error.status >= 500) =>
               Len(delays[op]) = maxRetries

\* C4: nothing but a thrown abort, reset or timeout is ever retried: an
\* operation has made no more retries than it has seen such errors, and one
\* that fails on a 4xx response, a body that is not JSON, a JSON-RPC error
\* envelope or another thrown error without having seen one made exactly one
\* POST.
C4_NonTransientNotRetried ==
    \A op \in Ops :
        LET f == call[op]
        IN /\ Len(delays[op]) <= f.transients
           /\ f.pc \in {"fetch", "backoff", "read", "stream", "returned"}
                  => Len(posts[op]) = Len(delays[op]) + (IF f.pc = "backoff" THEN 0 ELSE 1)
           /\ ( /\ f.transients = 0
                /\ f.pc = "thrown"
                /\ \/ f.error.kind = "HTTP" /\ f.error.status \in 400..499
                   \/ f.error.kind \in {"InvalidJSON", "RPC"}
                   \/ f.error.kind = "Fetch" /\ f.error.cause # "AbortError" )
              => Len(posts[op]) = 1 /\ delays[op] = <<>>

\* A 404 answer to the first POST, surfaced at once.
C4_Witness ==
    /\ call[1].pc = "thrown"
    /\ call[1].error.kind = "HTTP"
    /\ call[1].error.status = 404
    /\ Len(posts[1]) = 1

----------------------------------------------------------------------------
\* Request ids.

\* C5: the ids given to the payloads of successive operations are 1, 2, 3,
\* ...: each is greater than every earlier one, none is used twice, whether
\* the operations succeed or fail after validation.
C5_IdsIncrease ==
    /\ \A j \in 1..Len(assigned) : assigned[j] = j
    /\ Len(assigned) = requestId - 1
    /\ \A op \in Ops : call[op].id # 0 =>
           /\ call[op].id \in 1..Len(assigned)
           /\ \A p \in Ops \ {op} : call[p].id # call[op].id

\* The third id, given after earlier operations, to one that failed later.
C5_Witness ==
    /\ assigned = <<1, 2, 3>>
    /\ call[1].id = 3
    /\ call[1].pc = "thrown"
    /\ call[1].error.kind = "RPC"

\* C6 as stated: every POST, retries included, carries an id greater than
\* that of every POST before it; here for the POSTs of one operation.
C6_Original ==
    \A op \in Ops :
        \A j, k \in 1..Len(posts[op]) :
            j < k => posts[op][j].id < posts[op][k].id

\* The POST that a step adds to the log of op.
NewPost(op) == posts'[op][Len(posts'[op])]

\* C6, amended: the first POST of every operation carries an id greater than
\* the id of every request sent before it; a retry attempt sends the payload
\* of its operation again, with the id unchanged.
C6_FirstPostsIncrease ==
    [][\A op \in Ops :
          (posts'[op] # posts[op] /\ posts'[op] # <<>>) =>
              IF NewPost(op).retryCount = 0
              THEN \A x \in sentIds : NewPost(op).id > x
              ELSE /\ posts'[op] = Append(posts[op], NewPost(op))
                   /\ NewPost(op).id = posts[op][1].id
                   /\ NewPost(op).id = call[op].id]_vars

\* The second operation's retry goes out with id 2 again.
C6_Witness ==
    /\ Len(posts[1]) = 2
    /\ posts[1][1].id = 2
    /\ posts[1][2].id = 2
    /\ posts[1][2].retryCount = 1

----------------------------------------------------------------------------
\* Server names.

\* C7 as stated: a registered name, whatever its URL, passes validation and
\* only its URL is contacted; any other name fails with the known names
\* listed and nothing is sent.
C7_Original ==
    \A op \in Ops :
        LET f == call[op]
        IN f.pc # "idle" =>
               IF f.serverName \in DOMAIN servers
               THEN /\ f.error.kind # "UnknownServer"
                    /\ posts[op] # <<>>
                    /\ \A j \in 1..Len(posts[op]) :
                           posts[op][j].url = servers[f.serverName]
               ELSE /\ f.pc = "thrown"
                    /\ f.error.kind = "UnknownServer"
                    /\ f.error.names = DOMAIN servers
                    /\ posts[op] = <<>>

----------------------------------------------------------------------------
\* Streaming.

RECURSIVE Flatten(_)
Flatten(q) == IF q = <<>> THEN <<>> ELSE Head(q) \o Flatten(Tail(q))

IsPrefix(a, b) == Len(a) <= Len(b) /\ a = SubSeq(b, 1, Len(a))

\* The result payload of the response op received.
Payload(f) == Get(f.response.body.json, kResult)

\* C8: onData is not invoked before the name is validated, the response is in
\* (after all retries), its body is read and parsed; an operation that fails
\* at validation, in the transport or at parsing has delivered no chunk.
C8_NoChunkBeforeParse ==
    \A op \in Ops :
        LET f == call[op]
        IN /\ chunks[op] # <<>> =>
                  /\ f.method = "tools/call"
                  /\ ValidServerName(f.serverName)
                  /\ GotResponse(f)
                  /\ Ok(f.response.status)
                  /\ f.response.body.read = "ok"
                  /\ f.response.body.valid
                  /\ f.pc \in {"stream", "returned", "thrown"}
           /\ f.pc \in {"fetch", "backoff", "read"} => chunks[op] = <<>>
           /\ ( /\ f.pc = "thrown"
                /\ f.error.kind \in {"UnknownServer", "Fetch", "HTTP", "NoBody",
                                     "Read", "InvalidJSON"} )
              => chunks[op] = <<>>

\* callToolStream failed at parsing, after a retry, with nothing delivered.
C8_Witness ==
    /\ call[1].method = "tools/call"
    /\ call[1].pc = "thrown"
    /\ call[1].error.kind = "InvalidJSON"
    /\ Len(posts[1]) = 2
    /\ chunks[1] = <<>>

\* The text of the items of a content sequence that processToolResponse
\* hands to streamText, item after item.
RECURSIVE ContentText(_, _)
ContentText(items, j) ==
    IF j > Len(items) THEN <<>>
    ELSE (IF /\ ~Nullish(items[j])
             /\ Get(items[j], kType) = Str(kText)
             /\ Get(items[j], kText).t = "string"
          THEN Get(items[j], kText).s ELSE <<>>)
         \o ContentText(items, j + 1)

\* The string processToolResponse selects for a payload that is not nullish.
Selected(result) ==
    CASE Branch(result) = "content" -> ContentText(Items(Get(result, kContent)), 1)
      [] Branch(result) = "text"    -> Get(result, kText).s
      [] OTHER                      -> JSONstringify(result)

\* C9: the chunks delivered for the strings given to streamText, put together
\* in delivery order, are those strings, unit for unit, and at the end the
\* whole string selected from the payload; no chunk is empty; when the
\* selected string is empty onData is not invoked.
C9_ChunksAreTheText ==
    \A op \in Ops :
        LET f == call[op]
            all == Flatten(f.streamed)
        IN /\ \A j \in 1..Len(chunks[op]) : chunks[op][j] # <<>>
           /\ IsPrefix(Flatten(chunks[op]), all)
           /\ f.pc = "returned" => Flatten(chunks[op]) = all
           /\ (f.pc = "returned" /\ f.method = "tools/call") =>
                  /\ Flatten(chunks[op]) = Selected(Payload(f))
                  /\ Selected(Payload(f)) = <<>> => chunks[op] = <<>>
           /\ f.pc = "stream" =>
                  Len(all) - Len(Flatten(chunks[op])) = Len(f.text) - Len(Slice(f.text, 0, f.i + ChunkSize))
           /\ all = <<>> => chunks[op] = <<>>

\* The longest text, delivered whole in more than two chunks.
C9_Witness ==
    /\ call[1].pc = "returned"
    /\ call[1].streamed = <<Txt(3000, MaxTextLen)>>
    /\ Len(chunks[1]) > 2
    /\ Flatten(chunks[1]) = Txt(3000, MaxTextLen)

\* The slices of one text: all of ChunkSize units but the last.
SlicesOf(text) ==
    [j \in 1..((Len(text) + ChunkSize - 1) \div ChunkSize) |->
        SubSeq(text, (j - 1) * ChunkSize + 1,
               IF j * ChunkSize < Len(text) THEN j * ChunkSize ELSE Len(text))]

RECURSIVE SlicesOfAll(_)
SlicesOfAll(texts) ==
    IF texts = <<>> THEN <<>> ELSE SlicesOf(Head(texts)) \o SlicesOfAll(Tail(texts))

\* C10 as stated: of the chunks one callToolStream delivers, every one but
\* the last has exactly ChunkSize units.
C10_Original ==
    \A op \in Ops :
        \A j \in 1..(Len(chunks[op]) - 1) : Len(chunks[op][j]) = ChunkSize

\* C10, amended: every text item of the content sequence is sliced on its
\* own.  The chunks of one operation are the slices of its streamed strings,
\* string after string: within one string every slice but its last has
\* exactly ChunkSize units, and with several text items the last slice of
\* each item may be shorter, not only the last chunk of the operation.  When a
\* single string is streamed (top-level text or JSON fallback) only the last
\* chunk may be shorter.
C10_SlicedPerItem ==
    \A op \in Ops :
        LET f == call[op]
        IN /\ IsPrefix(chunks[op], SlicesOfAll(f.streamed))
           /\ f.pc = "returned" => chunks[op] = SlicesOfAll(f.streamed)
           /\ \A j \in 1..Len(chunks[op]) : Len(chunks[op][j]) <= ChunkSize
           /\ ~f.inContent =>
                  \A j \in 1..(Len(chunks[op]) - 1) : Len(chunks[op][j]) = ChunkSize

\* Two text items of ChunkSize + 1 units and of 1 unit: chunks of ChunkSize, 1, 1.
C10_Witness ==
    /\ call[1].pc = "returned"
    /\ call[1].inContent
    /\ Len(call[1].streamed) = 2
    /\ Len(chunks[1]) = 3
    /\ Len(chunks[1][2]) = 1

----------------------------------------------------------------------------
\* The normalizer.

\* processToolResponse has been entered for the payload of op's response.
Normalizing(f) ==
    /\ f.method = "tools/call"
    /\ \/ f.pc \in {"stream", "returned"}
       \/ f.pc = "thrown" /\ f.error.kind = "TypeError"
    /\ ~Nullish(f.response.body.json)

\* The payload has a content member that is a sequence.
HasContentSequence(result) == ~Nullish(result) /\ Get(result, kContent).t = "array"

\* The payload has a top-level text member (a string).
HasTopLevelText(result) == ~Nullish(result) /\ Get(result, kText).t = "string"

\* The texts, in sequence order, of the items of type "text".
RECURSIVE TextOfTextItems(_)
TextOfTextItems(items) ==
    IF items = <<>> THEN <<>>
    ELSE LET it == Head(items)
         IN (IF it.t = "object" /\ Get(it, kType) = Str(kText) /\ Get(it, kText).t = "string"
             THEN Get(it, kText).s ELSE <<>>)
            \o TextOfTextItems(Tail(items))

C12_Original ==
    \A op \in Ops :
        LET f == call[op]
            text == Get(Payload(f), kText).s
        IN ( /\ Normalizing(f)
             /\ ~HasContentSequence(Payload(f))
             /\ HasTopLevelText(Payload(f)) ) =>
               /\ IsPrefix(Flatten(chunks[op]), text)
               /\ f.pc = "returned" => Flatten(chunks[op]) = text
               /\ text = <<>> => chunks[op] = <<>>

\* The response is a success envelope: 2xx, a JSON object without an error.
SuccessEnvelope(f) ==
    /\ f.method = "tools/call"
    /\ Ok(f.response.status)
    /\ f.response.body.read = "ok"
    /\ f.response.body.valid
    /\ f.response.body.json.t = "object"
    /\ ~Truthy(Get(f.response.body.json, kError))

\* The payload matches neither rule 1 nor rule 2.
FallbackCase(result) == ~HasContentSequence(result) /\ ~HasTopLevelText(result)

\* C13 as stated: for a success envelope whose payload matches neither rule,
\* an object without content and text, null, or no result member at all,
\* callToolStream does not fail and what it has streamed when it returns is
\* the pretty-printed JSON of the payload.
C13_Original ==
    \A op \in Ops :
        LET f == call[op]
        IN ( /\ SuccessEnvelope(f)
             /\ f.pc \in {"stream", "returned", "thrown"}
             /\ FallbackCase(Payload(f)) ) =>
               /\ f.pc # "thrown"
               /\ f.pc = "returned" =>
                      Flatten(chunks[op]) = JSONstringify(Payload(f))

----------------------------------------------------------------------------
\* Error envelopes and the tool catalog.

\* The body of a 2xx response carries a JSON-RPC error envelope.
ErrorEnvelope(f) ==
    /\ Ok(f.response.status)
    /\ f.response.body.read = "ok"
    /\ f.response.body.valid
    /\ f.response.body.json.t = "object"
    /\ Get(f.response.body.json, kError).t = "object"

\* C14: a 2xx response with a JSON-RPC error envelope makes listTools and
\* callToolStream fail with the upstream code and message; no tool list is
\* returned and no chunk delivered, also when the body has a result member.
C14_ErrorEnvelopeFails ==
    \A op \in Ops :
        LET f == call[op]
            e == Get(f.response.body.json, kError)
        IN (ErrorEnvelope(f) /\ f.pc \notin {"fetch", "backoff", "read"}) =>
               /\ f.pc = "thrown"
               /\ f.error.kind = "RPC"
               /\ f.error.code = Get(e, kCode).n
               /\ f.error.message = Get(e, kMessage).s
               /\ f.ret = Undefined
               /\ chunks[op] = <<>>
               /\ f.streamed = <<>>

\* callToolStream failed on an envelope that has an error and a result.
C14_Witness ==
    /\ call[1].method = "tools/call"
    /\ call[1].pc = "thrown"
    /\ call[1].error.code = -32601
    /\ call[1].error.message = kName
    /\ ~Nullish(Payload(call[1]))
    /\ chunks[1] = <<>>

\* C16: listTools sends one tools/list request with empty parameters (the
\* same request again on a retry) and returns the tools member of the result
\* as it is, or an empty sequence when the result or its tools member is
\* absent; it never streams and never invokes a chunk callback.
C16_ListTools ==
    \A op \in Ops :
        LET f == call[op]
            r == Get(f.response.body.json, kResult)
        IN f.method = "tools/list" =>
               /\ \A j \in 1..Len(posts[op]) :
                      /\ posts[op][j].method = "tools/list"
                      /\ posts[op][j].params = Obj(<<>>)
                      /\ posts[op][j].id = f.id
               /\ chunks[op] = <<>>
               /\ f.streamed = <<>>
               /\ ~f.inContent
               /\ f.pc # "stream"
               /\ f.pc = "returned" =>
                      /\ ValidServerName(f.serverName)
                      /\ f.ret = IF Nullish(r) \/ Get(r, kTools).t = "undefined"
                                 THEN Arr(<<>>) ELSE Get(r, kTools)
               /\ f.pc # "returned" => f.ret = Undefined

\* listTools returned the tools the server listed.
C16_Witness ==
    /\ call[1].method = "tools/list"
    /\ call[1].pc = "returned"
    /\ call[1].ret = ToolsValue
    /\ Len(posts[1]) = 1

\* C17 as stated: a client configured with maxRetries = N, N = 0 included,
\* makes at most N retries in one call; with nothing configured the budget
\* is 3.
C17_Original ==
    /\ options.set => \A op \in Ops : Len(delays[op]) <= options.v
    /\ ~options.set => maxRetries = 3

----------------------------------------------------------------------------
\* Termination.

\* Every fetch is eventually answered or rejected, every body read ends, and
\* the timers of delay() fire.
Fairness ==
    /\ WF_vars(FetchThrows(1) \/ FetchReturns(1))
    /\ WF_vars(BodyRead(1))
    /\ WF_vars(Retry(1))
    /\ WF_vars(StreamTick(1))

\* operations invoked in the runs checked for termination
MaxLiveCalls == 1

\* One client (both servers reachable, an explicit retry budget of at least 1).
InitLive ==
    /\ Init
    /\ \A n \in DOMAIN servers : servers[n] # ""
    /\ options.set /\ options.v > 0

LiveOnly == started' <= MaxLiveCalls

NextLive ==
    \/ ListTools(1) /\ LiveOnly
    \/ CallToolStream(1) /\ LiveOnly
    \/ FetchThrows(1)
    \/ Retry(1)
    \/ FetchReturns(1)
    \/ BodyRead(1)
    \/ StreamTick(1)

SpecLive == InitLive /\ [][NextLive]_vars /\ Fairness

\* C18: if every HTTP attempt and body read eventually returns or throws,
\* every listTools / callToolStream eventually returns or throws, having made
\* at most 1 + maxRetries POSTs and no more chunk deliveries than the
\* streamed strings have code units.
C18_Terminates ==
    /\ [](\A op \in Ops :
             /\ Len(posts[op]) <= 1 + maxRetries
             /\ Len(chunks[op]) <= Len(Flatten(call[op].streamed)))
    /\ \A op \in Ops :
           (~Finished(call[op])) ~> (call[op].pc \in {"returned", "thrown"})

\* A call that used its whole budget of POSTs and then streamed to the end.
C18_Witness ==
    /\ call[1].pc = "returned"
    /\ Len(posts[1]) = 1 + maxRetries
    /\ Len(chunks[1]) >= 3

----------------------------------------------------------------------------
\* Operations in flight at the same time.

\* operations invoked in the concurrent runs
MaxConcCalls == 2

\* What the server answers in the concurrent runs.
ConcResponses ==
    { Response(200, Body("ok", TRUE, Success(
          Obj(<<Member(kContent, Arr(<<TextItem(Txt(1000, ChunkSize + 1)), ImageItem,
                                        TextItem(Txt(2000, 1))>>))>>)))),
      Response(200, Body("ok", TRUE, Success(
          Obj(<<Member(kText, Str(Txt(3000, MaxTextLen)))>>)))),
      Response(200, Body("ok", TRUE, Success(Obj(<<Member(kTools, ToolsValue)>>)))),
      Response(200, Body("ok", TRUE, Obj(<<Member(kError, ErrorValue)>>))),
      Response(404, NotJson) }

\* One client: both servers reachable, a retry budget of 1.
InitConc ==
    /\ Init
    /\ \A n \in DOMAIN servers : servers[n] # ""
    /\ options = [set |-> TRUE, v |-> 1]

\* The concurrent runs keep to MaxConcCalls operations, a registered and an
\* unknown server name, and the answers of ConcResponses.
ConcOnly(op) ==
    /\ started' <= MaxConcCalls
    /\ call'[op].serverName \in {"aws", "nope"}
    /\ call'[op].response \in ConcResponses \cup {NoResponse}

\* A caller that does not await one operation before it invokes the next:
\* the continuations of the operations interleave at their suspension points.
NextConc ==
    \E op \in Ops :
        \/ ListTools(op) /\ ConcOnly(op)
        \/ CallToolStream(op) /\ ConcOnly(op)
        \/ FetchThrows(op) /\ ConcOnly(op)
        \/ Retry(op) /\ ConcOnly(op)
        \/ FetchReturns(op) /\ ConcOnly(op)
        \/ BodyRead(op) /\ ConcOnly(op)
        \/ StreamTick(op) /\ ConcOnly(op)

SpecConc == InitConc /\ [][NextConc]_vars

InFlight(f) == f.pc \in {"fetch", "backoff", "read", "stream"}

\* C15: with several operations in flight and their continuations
\* interleaved, the counter is read and advanced in the one step that builds
\* the payload: no two operations ever hold the same request id and no id is
\* given twice.
C15_DistinctIdsInFlight ==
    /\ \A j, k \in 1..Len(assigned) : j # k => assigned[j] # assigned[k]
    /\ Len(assigned) = requestId - 1
    /\ \A op \in Ops : call[op].id # 0 =>
           /\ call[op].id < requestId
           /\ \A p \in Ops \ {op} : call[p].id # call[op].id
           /\ \A j \in 1..Len(posts[op]) : posts[op][j].id = call[op].id

\* Two operations in flight, one waiting to retry, one streaming.
C15_Witness ==
    /\ call[1].pc = "backoff"
    /\ call[2].pc = "stream"
    /\ call[1].id = 2
    /\ call[2].id = 1

\* C19: with two callToolStream operations in flight their deliveries may
\* interleave, yet the callback of each receives the slices of its own
\* payload's strings, left to right, each once, and nothing of the other
\* operation's payload.
C19_OwnChunksInOrder ==
    \A op \in Ops :
        LET f == call[op]
        IN (f.method = "tools/call" /\ f.pc \in {"stream", "returned"}) =>
               /\ IsPrefix(chunks[op], SlicesOfAll(f.streamed))
               /\ IsPrefix(Flatten(chunks[op]), Selected(Payload(f)))
               /\ f.pc = "returned" =>
                      /\ chunks[op] = SlicesOfAll(f.streamed)
                      /\ Flatten(chunks[op]) = Selected(Payload(f))
               /\ f.pc = "stream" =>
                      Len(Flatten(chunks[op])) =
                          Len(Flatten(f.streamed)) - Len(f.text)
                              + Len(Slice(f.text, 0, f.i + ChunkSize))

\* Both operations are between two chunks of different payloads.
C19_Witness ==
    /\ call[1].pc = "stream"
    /\ call[2].pc = "stream"
    /\ Len(chunks[1]) = 2
    /\ Len(chunks[2]) = 2
    /\ Payload(call[1]) # Payload(call[2])

----------------------------------------------------------------------------
\* Frame conditions.

\* A step in which an operation was invoked and failed validation: no frame
\* changed into anything but a frame thrown for an unknown server.
InvokedAndRejected ==
    /\ started' # started
    /\ \A op \in Ops :
           call'[op] # call[op] =>
               call'[op].pc = "thrown" /\ call'[op].error.kind = "UnknownServer"

\* C20: no step changes the server mapping, and a listTools / callToolStream
\* that fails validation leaves the client as it was: the id counter is not
\* advanced (the next valid call gets the id it would have got), no id is
\* given out and nothing is sent.
C20_RejectedCallChangesNothing ==
    [][/\ servers' = servers
       /\ maxRetries' = maxRetries
       /\ InvokedAndRejected =>
              /\ requestId' = requestId
              /\ assigned' = assigned
              /\ sentIds' = sentIds
       /\ (started' # started /\ ~InvokedAndRejected) =>
              /\ requestId' = requestId + 1
              /\ assigned' = Append(assigned, requestId)]_vars

\* A rejected call between two valid ones: the third call got id 2.
C20_Witness ==
    /\ started = 3
    /\ assigned = <<1, 2>>
    /\ requestId = 3
    /\ call[1].id = 2
    /\ call[1].pc = "fetch"

====
